---- MODULE Spec2Model ----
(***************************************************************************)
(* A model of src/src/index.js: main(settings), the viewport sweep that    *)
(* measures an image's rendered width at every viewport width, the         *)
(* aggregation of the visitors' perfect widths, and the (stubbed) srcset.  *)
(* One action per segment of main between two awaits.                      *)
(***************************************************************************)
EXTENDS Integers, Sequences, FiniteSets

(* ------------------------------ bounds -------------------------------- *)
\* Largest viewport width of a sweep range and of a visitor record.
MaxViewport == 2
\* Largest number of visitor records in contexts.
MaxContexts == 2
\* Largest views count of one visitor record.
MaxViews == 1
\* Largest target count N (options.widthsNumber) the srcset claims range over.
MaxWidthsNumber == 2

(* --------------------------- JS number values -------------------------- *)
\* A finite JS number that is the rational n/d (d > 0), in lowest terms.
RECURSIVE Gcd(_, _)
Gcd(a, b) == IF b = 0 THEN a ELSE Gcd(b, a % b)

Num(n, d) == LET g == Gcd(n, d) IN [t |-> "num", n |-> n \div g, d |-> d \div g]

Whole(n) == [t |-> "num", n |-> n, d |-> 1]

NaN == [t |-> "NaN", n |-> 0, d |-> 1]

Infinity == [t |-> "Infinity", n |-> 0, d |-> 1]

\* a / b for two non negative integers, as JS computes it: 0/0 is NaN.
Divide(a, b) ==
  IF b = 0 THEN (IF a = 0 THEN NaN ELSE Infinity) ELSE Num(a, b)

\* Math.ceil(w * density) for an integer w and the density num/den.
CeilTimes(w, density) == (w * density[1] + density[2] - 1) \div density[2]

\* b - a of the sort comparator, reduced to its sign; NaN - NaN is NaN,
\* which Array.prototype.sort takes as 0.
Minus(b, a) ==
  IF b.t = "num" /\ a.t = "num"
  THEN (IF b.n * a.d > a.n * b.d THEN 1
        ELSE IF b.n * a.d < a.n * b.d THEN -1 ELSE 0)
  ELSE 0

(* ------------------------------- Map ----------------------------------- *)
\* A Map is the sequence of its <<key, value>> entries in insertion order.
MapKeys(m) == {m[i][1] : i \in 1..Len(m)}

MapHas(m, k) == k \in MapKeys(m)

MapValue(m, k) == m[CHOOSE i \in 1..Len(m) : m[i][1] = k][2]

\* Map.prototype.set: an existing key keeps its place, a new one is appended.
MapSet(m, k, v) ==
  IF MapHas(m, k)
  THEN [i \in 1..Len(m) |-> IF m[i][1] = k THEN <<k, v>> ELSE m[i]]
  ELSE Append(m, <<k, v>>)

(* ------------------------------ inputs --------------------------------- *)
\* Pixel densities that are exact in binary floating point: 1 and 1.5.
Densities == {<<1, 1>>, <<3, 2>>}

VisitorRecords ==
  [viewport : 1..MaxViewport, density : Densities, views : 0..MaxViews]

RECURSIVE SeqsUpTo(_, _)
SeqsUpTo(S, n) ==
  IF n = 0 THEN {<<>>}
  ELSE LET shorter == SeqsUpTo(S, n - 1)
       IN shorter \cup {Append(s, x) : s \in {q \in shorter : Len(q) = n - 1}, x \in S}

\* The page's stylesheet: the image is as wide as the viewport ("fluid"),
\* or half as wide, rounded up ("half").
Layouts == {"fluid", "half"}

\* document.querySelector(sel).width when the viewport is w pixels wide.
Rendered(l, w) == IF l = "fluid" THEN w ELSE (w + 1) \div 2

VARIABLES
  pc,            \* where main is suspended
  contexts,      \* getContexts(...): the visitor records
  minViewport,   \* options.minViewport
  maxViewport,   \* options.maxViewport
  layout,        \* the loaded page's stylesheet
  VIEWPORT,      \* the object passed to page.setViewport
  pending,       \* the resize the browser has been asked for and not applied
  pageViewport,  \* the browser page's viewport
  imageWidths,   \* Map: viewport width -> image width
  perfectWidths, \* Map: perfect width -> views, then share of views
  totalViews,
  srcset,
  files,         \* the files written
  errors,        \* what logger.error was called with
  failure,       \* the rejection the catch of line 148 caught
  outcome,       \* the promise main returned
  trace,         \* history: the calls made to the browser, in order
  measuredUnder  \* history: for each imageWidths.set, the page's viewport then

vars == <<pc, contexts, minViewport, maxViewport, layout, VIEWPORT, pending,
          pageViewport, imageWidths, perfectWidths, totalViews, srcset, files,
          errors, failure, outcome, trace, measuredUnder>>

NoViewport == [width |-> 0, height |-> 0, deviceScaleFactor |-> 0]

Call(op, w) == [op |-> op, w |-> w]

Init ==
  /\ pc = "launch"
  /\ contexts \in SeqsUpTo(VisitorRecords, MaxContexts)
  /\ minViewport \in 1..MaxViewport
  /\ maxViewport \in minViewport..MaxViewport
  /\ layout \in Layouts
  /\ VIEWPORT = [width |-> minViewport, height |-> 2000, deviceScaleFactor |-> 1]
  /\ pending = NoViewport
  /\ pageViewport = NoViewport
  /\ imageWidths = <<>>
  /\ perfectWidths = <<>>
  /\ totalViews = 0
  /\ srcset = <<>>
  /\ files = {}
  /\ errors = <<>>
  /\ failure = "none"
  /\ outcome = "pending"
  /\ trace = <<>>
  /\ measuredUnder = <<>>

(* ------------------------- the viewport sweep -------------------------- *)
\* Catch without the .catch: the rejection reaches main's caller.
CatchMissing(kind) ==
  /\ failure' = kind
  /\ errors' = errors
  /\ pc' = "rejected"
  /\ outcome' = "rejected"

\* .catch of line 148: whatever rejects in goto or in the sweep is logged,
\* and main goes on to close the browser.
Catch(kind) ==
  /\ failure' = kind
  /\ errors' = Append(errors, "load")
  /\ pc' = "close"
  /\ outcome' = outcome

\* LoopTest with < for <=.
LoopTestStrict(vp) == vp.width < maxViewport

\* while (VIEWPORT.width <= options.maxViewport)
LoopTest(vp) == vp.width <= maxViewport

\* Increment that is forgotten.
IncrementForgotten(vp) == vp

\* VIEWPORT.width++
Increment(vp) == [vp EXCEPT !.width = @ + 1]

\* AwaitSetViewport without the await: main goes on to the sleep at once.
SetViewportNotAwaited == "sleep"

\* await page.setViewport(VIEWPORT): main is suspended until the browser
\* has applied the resize.
AwaitSetViewport == "setViewport"

\* From the while test to the next await, VIEWPORT being vp and the calls
\* made so far being called: either the resize is asked for, or the loop
\* ends and the CSV file is written when options.variationsFile is set (an
\* input that is read only here).
LoopHead(vp, called) ==
  IF LoopTest(vp)
  THEN /\ pending' = vp
       /\ trace' = Append(called, Call("setViewport", vp.width))
       /\ pc' = AwaitSetViewport
  ELSE /\ pending' = pending
       /\ trace' = called
       /\ \E variationsFile \in BOOLEAN :
            pc' = IF variationsFile THEN "writeVariations" ELSE "close"

\* const browser = await puppeteer.launch()
Launch ==
  /\ pc = "launch"
  /\ \/ pc' = "newPage" /\ outcome' = outcome
     \/ pc' = "rejected" /\ outcome' = "rejected"
  /\ UNCHANGED <<contexts, minViewport, maxViewport, layout, VIEWPORT, pending,
                 pageViewport, imageWidths, perfectWidths, totalViews, srcset,
                 files, errors, failure, trace, measuredUnder>>

\* const page = await browser.newPage()
NewPage ==
  /\ pc = "newPage"
  /\ \/ pc' = "goto" /\ outcome' = outcome
     \/ pc' = "rejected" /\ outcome' = "rejected"
  /\ UNCHANGED <<contexts, minViewport, maxViewport, layout, VIEWPORT, pending,
                 pageViewport, imageWidths, perfectWidths, totalViews, srcset,
                 files, errors, failure, trace, measuredUnder>>

\* page.goto(options.url) resolves: the then handler runs to its first await.
GotoLoads ==
  /\ pc = "goto"
  /\ LoopHead(VIEWPORT, Append(trace, Call("goto", 0)))
  /\ UNCHANGED <<contexts, minViewport, maxViewport, layout, VIEWPORT,
                 pageViewport, imageWidths, perfectWidths, totalViews, srcset,
                 files, errors, failure, outcome, measuredUnder>>

\* page.goto rejects: the page could not be loaded.
GotoFails ==
  /\ pc = "goto"
  /\ trace' = Append(trace, Call("goto", 0))
  /\ Catch("navigate")
  /\ UNCHANGED <<contexts, minViewport, maxViewport, layout, VIEWPORT, pending,
                 pageViewport, imageWidths, perfectWidths, totalViews, srcset,
                 files, measuredUnder>>

\* The browser applies the resize it was asked for; main, if it waits for
\* that, resumes.
OracleResize ==
  /\ pending # NoViewport
  /\ pageViewport' = pending
  /\ pending' = NoViewport
  /\ pc' = IF pc = "setViewport" THEN "sleep" ELSE pc
  /\ UNCHANGED <<contexts, minViewport, maxViewport, layout, VIEWPORT,
                 imageWidths, perfectWidths, totalViews, srcset, files, errors,
                 failure, outcome, trace, measuredUnder>>

\* page.setViewport rejects.
ResizeFails ==
  /\ pc = "setViewport"
  /\ pending # NoViewport
  /\ pending' = NoViewport
  /\ Catch("resize")
  /\ UNCHANGED <<contexts, minViewport, maxViewport, layout, VIEWPORT,
                 pageViewport, imageWidths, perfectWidths, totalViews, srcset,
                 files, trace, measuredUnder>>

\* await sleep(options.delay)
Sleep ==
  /\ pc = "sleep"
  /\ pc' = "evaluate"
  /\ UNCHANGED <<contexts, minViewport, maxViewport, layout, VIEWPORT, pending,
                 pageViewport, imageWidths, perfectWidths, totalViews, srcset,
                 files, errors, failure, outcome, trace, measuredUnder>>

\* page.evaluate resolves with the image's width in the page as it is now;
\* it is recorded, VIEWPORT.width is incremented and the loop goes round.
Evaluate ==
  /\ pc = "evaluate"
  /\ imageWidths' =
       MapSet(imageWidths, VIEWPORT.width, Rendered(layout, pageViewport.width))
  /\ measuredUnder' =
       Append(measuredUnder, [key |-> VIEWPORT.width, viewport |-> pageViewport])
  /\ VIEWPORT' = Increment(VIEWPORT)
  /\ LoopHead(VIEWPORT', Append(trace, Call("evaluate", 0)))
  /\ UNCHANGED <<contexts, minViewport, maxViewport, layout, pageViewport,
                 perfectWidths, totalViews, srcset, files, errors, failure,
                 outcome>>

\* page.evaluate rejects: document.querySelector(sel) is null.
EvaluateFails ==
  /\ pc = "evaluate"
  /\ trace' = Append(trace, Call("evaluate", 0))
  /\ Catch("measure")
  /\ UNCHANGED <<contexts, minViewport, maxViewport, layout, VIEWPORT, pending,
                 pageViewport, imageWidths, perfectWidths, totalViews, srcset,
                 files, measuredUnder>>

\* await writeFile(options.variationsFile, csvString), its then and its catch.
WriteVariations ==
  /\ pc = "writeVariations"
  /\ \/ files' = files \cup {"variations"} /\ errors' = errors
     \/ files' = files /\ errors' = Append(errors, "variations")
  /\ pc' = "close"
  /\ UNCHANGED <<contexts, minViewport, maxViewport, layout, VIEWPORT, pending,
                 pageViewport, imageWidths, perfectWidths, totalViews, srcset,
                 failure, outcome, trace, measuredUnder>>

\* await page.browser().close()
Close ==
  /\ pc = "close"
  /\ trace' = Append(trace, Call("close", 0))
  /\ \/ pc' = "aggregate" /\ outcome' = outcome
     \/ pc' = "rejected" /\ outcome' = "rejected"
  /\ UNCHANGED <<contexts, minViewport, maxViewport, layout, VIEWPORT, pending,
                 pageViewport, imageWidths, perfectWidths, totalViews, srcset,
                 files, errors, failure, measuredUnder>>

(* --------------------------- the aggregation --------------------------- *)
\* value.viewport >= options.minViewport && value.viewport <= options.maxViewport
InRange(value) ==
  value.viewport >= minViewport /\ value.viewport <= maxViewport

\* Math.ceil(imageWidths.get(value.viewport) * value.density): get gives
\* undefined for a missing key, and undefined * density is NaN.
PerfectWidth(value) ==
  IF MapHas(imageWidths, value.viewport)
  THEN Whole(CeilTimes(MapValue(imageWidths, value.viewport), value.density))
  ELSE NaN

\* AddViews that overwrites the views instead of adding to them.
AddViewsOverwrites(m, k, views) == views

\* (perfectWidths.get(perfectWidth) || 0) + value.views
AddViews(m, k, views) == (IF MapHas(m, k) THEN MapValue(m, k) ELSE 0) + views

\* contexts.map(value => ...) over the first i records: the views per perfect
\* width and totalViews.
RECURSIVE Collect(_)
Collect(i) ==
  IF i = 0 THEN [map |-> <<>>, total |-> 0]
  ELSE LET prev == Collect(i - 1)
           value == contexts[i]
           perfectWidth == PerfectWidth(value)
       IN IF InRange(value)
          THEN [map   |-> MapSet(prev.map, perfectWidth,
                                 AddViews(prev.map, perfectWidth, value.views)),
                total |-> prev.total + value.views]
          ELSE prev

\* perfectWidths.forEach((views, width) => perfectWidths.set(width, views / totalViews))
Percentages(m, total) ==
  [i \in 1..Len(m) |-> <<m[i][1], Divide(m[i][2], total)>>]

\* x put into s, which is sorted, after every entry the comparator does not
\* put after it: the sort is stable.
RECURSIVE Insert(_, _)
Insert(x, s) ==
  IF s = <<>> THEN <<x>>
  ELSE IF Minus(x[2], s[1][2]) > 0 THEN <<x>> \o s
       ELSE <<s[1]>> \o Insert(x, Tail(s))

\* [...perfectWidths.entries()].sort((a, b) => b[1] - a[1])
RECURSIVE SortByShare(_)
SortByShare(m) ==
  IF m = <<>> THEN <<>>
  ELSE Insert(m[Len(m)], SortByShare(SubSeq(m, 1, Len(m) - 1)))

\* Lines 163 to 223: the perfect widths, their shares, the sort, and the
\* srcset, which the code leaves empty ("todo"); then the result file is
\* written when options.destFile is set (an input that is read only here).
Aggregate ==
  /\ pc = "aggregate"
  /\ LET collected == Collect(Len(contexts))
     IN /\ totalViews' = collected.total
        /\ perfectWidths' =
             SortByShare(Percentages(collected.map, collected.total))
  /\ srcset' = <<>>
  /\ \E destFile \in BOOLEAN :
       IF destFile
       THEN pc' = "writeDest" /\ outcome' = outcome
       ELSE pc' = "done" /\ outcome' = "resolved"
  /\ UNCHANGED <<contexts, minViewport, maxViewport, layout, VIEWPORT, pending,
                 pageViewport, imageWidths, files, errors, failure, trace,
                 measuredUnder>>

\* await writeFile(options.destFile, fileString), its then and its catch.
WriteDest ==
  /\ pc = "writeDest"
  /\ \/ files' = files \cup {"dest"} /\ errors' = errors
     \/ files' = files /\ errors' = Append(errors, "dest")
  /\ pc' = "done"
  /\ outcome' = "resolved"
  /\ UNCHANGED <<contexts, minViewport, maxViewport, layout, VIEWPORT, pending,
                 pageViewport, imageWidths, perfectWidths, totalViews, srcset,
                 failure, trace, measuredUnder>>

Next ==
  \/ Launch
  \/ NewPage
  \/ GotoLoads
  \/ GotoFails
  \/ OracleResize
  \/ ResizeFails
  \/ Sleep
  \/ Evaluate
  \/ EvaluateFails
  \/ WriteVariations
  \/ Close
  \/ Aggregate
  \/ WriteDest

Spec == Init /\ [][Next]_vars

(* ------------------------------ properties ----------------------------- *)
Range == minViewport..maxViewport

TallViewport(w) == [width |-> w, height |-> 2000, deviceScaleFactor |-> 1]

\* The widths page.setViewport was called with, in order.
Resizes ==
  LET calls == SelectSeq(trace, LAMBDA c : c.op = "setViewport")
  IN [i \in 1..Len(calls) |-> calls[i].w]

Closes == Cardinality({i \in 1..Len(trace) : trace[i].op = "close"})

SweepEnded == pc \in {"writeVariations", "close", "aggregate", "writeDest", "done"}

SweepSucceeded == SweepEnded /\ failure = "none"

Aggregated == pc \in {"writeDest", "done"}

\* C1: when the page loads and every measurement succeeds, the keys of
\* imageWidths at the end of the sweep are exactly minViewport..maxViewport,
\* and each key was set once.
C1_KeySetIsRange ==
  SweepSucceeded =>
    /\ MapKeys(imageWidths) = Range
    /\ Len(imageWidths) = Cardinality(Range)
    /\ Len(measuredUnder) = Cardinality(Range)
    /\ \A w \in Range :
         Cardinality({i \in 1..Len(measuredUnder) : measuredUnder[i].key = w}) = 1

C1_Witness ==
  /\ SweepSucceeded
  /\ pc = "close"
  /\ minViewport < maxViewport
  /\ MapKeys(imageWidths) = Range

\* C2: the widths passed to page.setViewport are minViewport, minViewport + 1,
\* ... in this order: none is repeated, reordered or skipped.
C2_ResizesIncreaseByOne ==
  /\ \A i \in 1..Len(Resizes) : Resizes[i] = minViewport + i - 1
  /\ Len(Resizes) <= Cardinality(Range)

C2_Witness ==
  /\ Len(Resizes) >= 2
  /\ Resizes[1] = minViewport
  /\ Resizes[2] = minViewport + 1

\* C3: the iterations do not overlap: no resize is pending while main sleeps
\* or measures, the page's viewport is then the one of this iteration, and
\* every value recorded under key w was measured with the page's viewport
\* being {width: w, height: 2000, deviceScaleFactor: 1}.
C3_MeasuredUnderItsViewport ==
  /\ pc \in {"sleep", "evaluate"} =>
       pending = NoViewport /\ pageViewport = TallViewport(VIEWPORT.width)
  /\ \A i \in 1..Len(measuredUnder) :
       measuredUnder[i].viewport = TallViewport(measuredUnder[i].key)
  /\ \A i \in 1..Len(imageWidths) :
       imageWidths[i][2] = Rendered(layout, imageWidths[i][1])

C3_Witness ==
  /\ layout = "fluid"
  /\ Len(measuredUnder) >= 2
  /\ measuredUnder[2].viewport = TallViewport(minViewport + 1)
  /\ MapValue(imageWidths, minViewport + 1) = minViewport + 1

\* C4: a measurement error at a width aborts the sweep and is not swallowed:
\* no width is probed after it, and the aggregation is never run over an
\* imageWidths that lacks a key of the range, so no perfect width comes from
\* a missing measurement.
C4_MeasurementErrorAborts ==
  failure = "measure" =>
    /\ Len(Resizes) = Len(measuredUnder) + 1
    /\ ~Aggregated
    /\ ~MapHas(perfectWidths, NaN)

\* C5: a navigation error is fatal to the run: the sweep does not start,
\* nothing is measured, main's caller gets the failure, and no later stage
\* (aggregation, selection, result file) is executed.
C5_NavigationErrorIsFatal ==
  failure = "navigate" =>
    /\ Resizes = <<>>
    /\ imageWidths = <<>>
    /\ pc \in {"close", "rejected"}
    /\ outcome # "resolved"

\* The records whose viewport is in the sweep range, by their place in contexts.
InRangeRecords ==
  {i \in 1..Len(contexts) :
     minViewport <= contexts[i].viewport /\ contexts[i].viewport <= maxViewport}

RECURSIVE SumViews(_)
SumViews(S) ==
  IF S = {} THEN 0
  ELSE LET i == CHOOSE j \in S : TRUE
       IN contexts[i].views + SumViews(S \ {i})

\* ceil(imageWidths[r.viewport] * r.density) of the i-th record: the least
\* integer that is not below the product.
RefPerfectWidth(i) ==
  LET w == MapValue(imageWidths, contexts[i].viewport)
      num == contexts[i].density[1]
      den == contexts[i].density[2]
  IN CHOOSE c \in 0..(w * num) :
       c * den >= w * num /\ (c = 0 \/ (c - 1) * den < w * num)

RefTotal == SumViews(InRangeRecords)

RefDemand(p) == SumViews({i \in InRangeRecords : RefPerfectWidth(i) = p})

\* The first e shares of perfectWidths added up, in units of 1/RefTotal.
RECURSIVE ShareSum(_)
ShareSum(e) ==
  IF e = 0 THEN 0
  ELSE ShareSum(e - 1)
         + perfectWidths[e][2].n * (RefTotal \div perfectWidths[e][2].d)

\* C6: with imageWidths complete over the range and a positive total of the
\* in-range views, perfectWidths has one entry per perfect width of an
\* in-range record, whose share is the views of the in-range records with
\* that perfect width over the views of all in-range records; the shares
\* sum to 1, and out-of-range records count nowhere.
C6_DistributionIsReference ==
  (Aggregated /\ failure = "none" /\ RefTotal > 0) =>
    /\ totalViews = RefTotal
    /\ MapKeys(perfectWidths) = {Whole(RefPerfectWidth(i)) : i \in InRangeRecords}
    /\ Len(perfectWidths) = Cardinality(MapKeys(perfectWidths))
    /\ \A e \in 1..Len(perfectWidths) :
         LET share == perfectWidths[e][2]
         IN /\ share.t = "num"
            /\ share.n * RefTotal = RefDemand(perfectWidths[e][1].n) * share.d
    /\ \A e \in 1..Len(perfectWidths) : RefTotal % perfectWidths[e][2].d = 0
    /\ ShareSum(Len(perfectWidths)) = RefTotal

\* Two in-range records of different viewports with the same perfect width,
\* both with views: their views are accumulated into one entry.
C6_Witness ==
  /\ Aggregated /\ failure = "none"
  /\ Len(contexts) = 2
  /\ InRangeRecords = {1, 2}
  /\ contexts[1].viewport # contexts[2].viewport
  /\ contexts[1].views > 0 /\ contexts[2].views > 0
  /\ Len(perfectWidths) = 1
  /\ perfectWidths[1][2] = Whole(1)

\* C7: when the total of the in-range views is 0, the distribution is empty:
\* the division by totalViews is not performed and no undefined share is
\* stored.
C7_NoDivisionByZeroViews ==
  (Aggregated /\ failure = "none" /\ totalViews = 0) =>
    /\ perfectWidths = <<>>
    /\ \A e \in 1..Len(perfectWidths) : perfectWidths[e][2] # NaN

Ascending(q) == \A i \in 1..Len(q) - 1 : q[i] < q[i + 1]

\* C8: for every target count N >= 1, the srcset of the run holds exactly
\* min(N, number of distinct demand widths) widths, distinct, positive and
\* ascending.
C8_SrcsetHasMinNWidths ==
  (pc = "done" /\ failure = "none" /\ totalViews > 0) =>
    \A N \in 1..MaxWidthsNumber :
      /\ Len(srcset) =
           (IF N < Len(perfectWidths) THEN N ELSE Len(perfectWidths))
      /\ Ascending(srcset)
      /\ \A i \in 1..Len(srcset) : srcset[i] > 0

\* C9: for every demand width d of perfectWidths, the srcset of the run
\* holds a width >= d.
C9_NoUpscale ==
  (pc = "done" /\ failure = "none" /\ totalViews > 0) =>
    \A e \in 1..Len(perfectWidths) :
      \E i \in 1..Len(srcset) : srcset[i] >= perfectWidths[e][1].n

\* C10: once the page is opened, the browser is closed exactly once on every
\* path (complete sweep, navigation failure, measurement failure): the close
\* is the last call made to the browser, it is made before the aggregation
\* starts, and main stops only after it.
C10_ClosedExactlyOnce ==
  /\ Closes <= 1
  /\ Closes = 1 => trace[Len(trace)].op = "close"
  /\ pc \in {"aggregate", "writeDest", "done"} => Closes = 1
  /\ (pc = "rejected" /\ trace # <<>>) => Closes = 1
  /\ failure # "none" => pc \in {"close", "aggregate", "writeDest", "done", "rejected"}

C10_Witness ==
  /\ failure = "measure"
  /\ pc = "done"
  /\ Closes = 1
  /\ Len(measuredUnder) = 1

====
